---- MODULE Spec2Model ----
(***************************************************************************)
(* The OpAMP client of mosfet-rs: the FSM of src/state.rs, driven one      *)
(* transition per Api::poll() tick, over the HTTP transport                *)
(* (src/httpclient/mod.rs) and the WebSocket transport                     *)
(* (src/wsclient/mod.rs).                                                  *)
(*                                                                         *)
(* A tick is one action: trigger() -> State::evaluate -> one transport     *)
(* operation -> the new state stored.  Network results, callback results   *)
(* and the wall clock are inputs drawn with \E.  A Rust panic (unwrap /    *)
(* expect / slice index) aborts the tick: panicked becomes TRUE, no state  *)
(* is stored and the client takes no further step.                         *)
(***************************************************************************)
EXTENDS Integers, Sequences, FiniteSets, TLC

VARIABLES
    transport,            \* "http" | "ws": the Channel that Api::new built
    retries,              \* value of OPAMP_CONNECT_RETRIES (a valid u32)
    server,               \* the server of this run: the payloads it sends,
                          \* whether it answers every connection attempt
    caller,               \* the caller of this run: the users its callbacks
                          \* may be, the pauses it may leave between ticks
    state,                \* client.state: [name, token]
    backoff,              \* client.backoff
    seqno,                \* client.seqno
    last_sent_timestamp,  \* HttpClient.last_sent_timestamp (seconds)
    agent_state,          \* client.agent_state: None or Some(AgentToServer)
    stream,               \* WsClient.stream: None or Some("socket")
    inbox,                \* HttpClient.inbox: Vec<ServerToAgent>
    outbox,               \* client.outbox: Vec<AgentToServer>
    now,                  \* the wall clock read by get_time_nanos (seconds)
    panicked,             \* a tick aborted with a panic
    wire,                 \* history: every message handed to the network
                          \* (a POST issued, a frame given to the sink)
    enqueued,             \* history: number of outbox pushes so far
    features,             \* history: what each get_features call returned
    connects,             \* history: the connect attempts that failed (a
                          \* count) and whether one has succeeded
    tick                  \* history: what the last tick did

vars == <<transport, retries, server, caller, state, backoff, seqno, last_sent_timestamp,
          agent_state, stream, inbox, outbox, now, panicked, wire, enqueued,
          features, connects, tick>>

----------------------------------------------------------------------------
\* Bounds of the exploration.

\* largest OPAMP_CONNECT_RETRIES explored
MaxRetries == 2
\* failed connects explored beyond the retry limit
MaxOverrun == 1
\* largest sequence number handed out
MaxSeq == 4
\* seconds of wall clock explored after construction
MaxElapsed == 31
\* ticks counted from construction
MaxTicks == 6

----------------------------------------------------------------------------
\* Program constants.

\* SERVER_POLL_DELAY, in seconds
SERVER_POLL_DELAY == 30
\* the default of OPAMP_CONNECT_RETRIES
DEFAULT_CONNECT_RETRIES == 10

RetryLimits == 0..MaxRetries
\* the wall clock at construction is far beyond SERVER_POLL_DELAY after the
\* epoch (where last_sent_timestamp = 0 points)
StartTime == SERVER_POLL_DELAY
MaxTime == StartTime + MaxElapsed

----------------------------------------------------------------------------
\* Option<T>

None == <<>>
Some(x) == <<x>>
IsSome(o) == o # <<>>
Unwrap(o) == o[1]

\* StateResponse, and Err(ApiClientError) / a panic of the operation
Reply(t) == [kind |-> "Reply", token |-> t]
Error(t) == [kind |-> "Error", token |-> t]
RNone == [kind |-> "None", token |-> ""]
Err(t) == [kind |-> "Err", token |-> t]
Panic == [kind |-> "Panic", token |-> ""]

StateNames == {"Disconnected", "Connecting", "Connected", "Polling",
               "Sending", "Waiting"}
St(n, t) == [name |-> n, token |-> t]

\* settings.instance_id
InstanceId == "self"

RECURSIVE Pow2(_)
Pow2(n) == IF n = 0 THEN 1 ELSE 2 * Pow2(n - 1)

----------------------------------------------------------------------------
\* State::evaluate: the next state for the state self and the result r of the
\* transport operation bound to self (no operation runs in Disconnected).

\* evaluate with the None arm of Waiting falling through to Polling
evaluate_wait_none(self, r) ==
    CASE self.name = "Disconnected" -> St("Connecting", "")
      [] self.name = "Connecting" ->
            (CASE r.kind = "Reply" -> St("Connected", r.token)
               [] r.kind = "None" -> St("Connected", "")
               [] r.kind = "Error" -> St("Disconnected", r.token)
               [] r.kind = "Err" -> St("Disconnected", r.token))
      [] self.name = "Connected" ->
            (CASE r.kind = "Reply" -> St("Sending", r.token)
               [] r.kind = "None" -> St("Polling", "")
               [] r.kind = "Error" -> St("Disconnected", r.token)
               [] r.kind = "Err" -> St("Disconnected", r.token))
      [] self.name = "Polling" ->
            (CASE r.kind = "Reply" -> St("Sending", r.token)
               [] r.kind = "None" -> self
               [] r.kind = "Error" -> St("Disconnected", r.token)
               [] r.kind = "Err" -> St("Connecting", r.token))
      [] self.name = "Sending" ->
            (CASE r.kind = "Reply" -> St("Waiting", r.token)
               [] r.kind = "None" -> St("Polling", "")
               [] r.kind = "Error" -> St("Polling", r.token)
               [] r.kind = "Err" -> St("Connecting", r.token))
      [] self.name = "Waiting" ->
            (CASE r.kind = "Reply" -> St("Polling", r.token)
               [] r.kind = "None" -> St("Polling", "")
               [] r.kind = "Error" -> St("Polling", r.token)
               [] r.kind = "Err" -> St("Connecting", r.token))

evaluate(self, r) ==
    CASE self.name = "Disconnected" -> St("Connecting", "")
      [] self.name = "Connecting" ->
            (CASE r.kind = "Reply" -> St("Connected", r.token)
               [] r.kind = "None" -> St("Connected", "")
               [] r.kind = "Error" -> St("Disconnected", r.token)
               [] r.kind = "Err" -> St("Disconnected", r.token))
      [] self.name = "Connected" ->
            (CASE r.kind = "Reply" -> St("Sending", r.token)
               [] r.kind = "None" -> St("Polling", "")
               [] r.kind = "Error" -> St("Disconnected", r.token)
               [] r.kind = "Err" -> St("Disconnected", r.token))
      [] self.name = "Polling" ->
            (CASE r.kind = "Reply" -> St("Sending", r.token)
               [] r.kind = "None" -> self
               [] r.kind = "Error" -> St("Disconnected", r.token)
               [] r.kind = "Err" -> St("Connecting", r.token))
      [] self.name = "Sending" ->
            (CASE r.kind = "Reply" -> St("Waiting", r.token)
               [] r.kind = "None" -> St("Polling", "")
               [] r.kind = "Error" -> St("Polling", r.token)
               [] r.kind = "Err" -> St("Connecting", r.token))
      [] self.name = "Waiting" ->
            (CASE r.kind = "Reply" -> St("Polling", r.token)
               [] r.kind = "None" -> self
               [] r.kind = "Error" -> St("Polling", r.token)
               [] r.kind = "Err" -> St("Connecting", r.token))

----------------------------------------------------------------------------
\* Messages.  An AgentToServer keeps the protocol fields the client reads or
\* writes; origin names who built the message (the state store, the health
\* transition, the heartbeat, or the callback that returned it) and enq is
\* the ordinal of its outbox push (history, not sent).

AgentToServerDefault ==
    [instance_uid |-> "", sequence_num |-> 0, capabilities |-> 0, flags |-> 0,
     agent_description |-> None, health |-> None, effective_config |-> None,
     remote_config_status |-> None, package_statuses |-> None,
     agent_disconnect |-> None, origin |-> "", enq |-> 0]

\* defaults::agent_health
agent_health ==
    [healthy |-> FALSE, start_time_unix_nano |-> now, last_error |-> ""]

\* the users of the explored runs, each by what its get_configuration
\* (Err(e), Ok(None), Ok(Some(map))) and its get_features (capabilities,
\* flags) answer
Users == {[cfg |-> [ok |-> FALSE, val |-> None], feat |-> <<1, 0>>],
          [cfg |-> [ok |-> TRUE, val |-> None], feat |-> <<1, 0>>],
          [cfg |-> [ok |-> TRUE, val |-> Some("config_map")], feat |-> <<3, 1>>]}

\* The callbacks' answers to one get_status call: they are consulted only
\* when the store is still None.
StatusInputs(store) ==
    IF store = None
    THEN caller.users
    ELSE {[cfg |-> [ok |-> TRUE, val |-> None], feat |-> <<0, 0>>]}

\* get_status: read-or-init of the agent state store.  The new store; the
\* value returned to the caller is a clone of its content.
get_status_config_lost(store, in) ==
    IF store = None
    THEN Some([AgentToServerDefault EXCEPT
                 !.instance_uid = InstanceId,
                 !.sequence_num = 0,
                 !.capabilities = in.feat[1],
                 !.flags = in.feat[2],
                 !.agent_description = Some("agent_description"),
                 !.health = Some(agent_health),
                 !.effective_config =
                     IF in.cfg.ok THEN Some([config_map |-> in.cfg.val])
                     ELSE None,
                 !.remote_config_status = Some("unset"),
                 !.package_statuses = Some("empty"),
                 !.agent_disconnect = None,
                 !.origin = "full_state"])
    ELSE store

get_status(store, in) ==
    IF store = None
    THEN Some([AgentToServerDefault EXCEPT
                 !.instance_uid = InstanceId,
                 !.sequence_num = 0,
                 !.capabilities = in.feat[1],
                 !.flags = in.feat[2],
                 !.agent_description = Some("agent_description"),
                 !.health = Some(agent_health),
                 !.effective_config =
                     Some([config_map |-> IF in.cfg.ok THEN in.cfg.val ELSE None]),
                 !.remote_config_status = Some("unset"),
                 !.package_statuses = Some("empty"),
                 !.agent_disconnect = None,
                 !.origin = "full_state"])
    ELSE store

\* the callbacks get_status invokes: both when it initializes
status_calls(store) ==
    IF store = None THEN <<"get_configuration", "get_features">> ELSE <<>>

\* ... and the one of them that answered Err
status_errs(store, in) ==
    IF store = None /\ ~in.cfg.ok THEN <<"get_configuration">> ELSE <<>>

\* let mut func = self.callback.lock().unwrap(), the calls made on func, and
\* the guard dropped at the end of its block
guarded_leaked(calls) == <<"lock">> \o calls

guarded(calls) == <<"lock">> \o calls \o <<"unlock">>

\* ... and what get_status does to the callback mutex: the guard is taken
\* inside the is_none() branch, around both calls
status_mutex(store) ==
    IF store = None THEN guarded(status_calls(store)) ELSE <<>>

\* the get_features calls get_status makes: one when it initializes
features_after(store, in) ==
    IF store = None THEN Append(features, in.feat) ELSE features

\* set_health: get_status().unwrap(), overwrite health.healthy, store it back
set_health_restamped(store, healthy, in) ==
    LET st == Unwrap(get_status(store, in)) IN
    Some([st EXCEPT !.health =
            IF IsSome(st.health)
            THEN Some([Unwrap(st.health) EXCEPT
                         !.healthy = healthy,
                         !.start_time_unix_nano = now])
            ELSE None])

set_health(store, healthy, in) ==
    LET st == Unwrap(get_status(store, in)) IN
    Some([st EXCEPT !.health =
            IF IsSome(st.health)
            THEN Some([Unwrap(st.health) EXCEPT !.healthy = healthy])
            ELSE None])

\* get_health: a copy of the stored health, its start time overwritten with
\* the time of the call
get_health(store) ==
    Some([Unwrap(Unwrap(store).health) EXCEPT !.start_time_unix_nano = now])

\* Vec::push on the outbox; the push is numbered after the pushes before it
\* (enqueued counts those of earlier ticks, ob - outbox those of this tick)
push_twice(ob, msg) ==
    Append(Append(ob, [msg EXCEPT !.enq = enqueued + (Len(ob) - Len(outbox)) + 1]),
           [msg EXCEPT !.enq = enqueued + (Len(ob) - Len(outbox)) + 1])

push(ob, msg) ==
    Append(ob, [msg EXCEPT !.enq = enqueued + (Len(ob) - Len(outbox)) + 1])

----------------------------------------------------------------------------
\* Api::poll -> Channel::trigger: the state that evaluate returned is stored,
\* unless the operation panicked (then nothing is stored and the client is
\* gone).  tick records the tick: the state it started in, the transport
\* operations it invoked, the kind of result, the seconds slept, the
\* callbacks invoked, in order, the network failure the operation met
\* ("" when none), the call sites whose callback answered Err, in order, the
\* number of the tick since construction, as far as ticks are counted, and
\* what happened to the callback mutex: "lock", the callbacks called, "unlock".

\* one more tick, counted up to MaxTicks
counted(n) == IF n < MaxTicks THEN n + 1 ELSE n

trigger_cb(r, ops, slept, calls, fault, errs, mutex) ==
    /\ state' = IF r.kind = "Panic" THEN state ELSE evaluate(state, r)
    /\ panicked' = (r.kind = "Panic")
    /\ tick' = [from |-> state.name, ops |-> ops, resp |-> r.kind,
                sleep |-> slept, calls |-> calls, fault |-> fault,
                errs |-> errs, n |-> counted(tick.n), mutex |-> mutex]

\* a tick in which no callback answered Err
trigger(r, ops, slept, calls, fault) ==
    trigger_cb(r, ops, slept, calls, fault, <<>>, <<>>)

Running(t, n) == ~panicked /\ transport = t /\ state.name = n

----------------------------------------------------------------------------
\* Disconnected: evaluate returns Connecting without calling the transport.

\* a Disconnected tick that connects and shakes hands at once
TickDisconnectedEager ==
    /\ ~panicked /\ state.name = "Disconnected"
    /\ state' = St("Connected", "")
    /\ tick' = [from |-> state.name, ops |-> <<"connect", "handshake">>,
                resp |-> "Reply", sleep |-> 0, calls |-> <<>>, fault |-> "",
                errs |-> <<>>, n |-> counted(tick.n), mutex |-> <<>>]
    /\ UNCHANGED <<transport, retries, server, caller, connects, backoff, seqno, last_sent_timestamp,
                   agent_state, stream, inbox, outbox, now, panicked, wire,
                   enqueued, features>>

\* a Disconnected tick that also forgets the failures counted so far
TickDisconnectedReset ==
    /\ ~panicked /\ state.name = "Disconnected"
    /\ trigger(RNone, <<>>, 0, <<>>, "")
    /\ backoff' = 0
    /\ UNCHANGED <<transport, retries, server, caller, connects, seqno,
                   last_sent_timestamp, agent_state, stream, inbox, outbox, now,
                   wire, enqueued, features>>

TickDisconnected ==
    /\ ~panicked /\ state.name = "Disconnected"
    /\ trigger(RNone, <<>>, 0, <<>>, "")
    /\ UNCHANGED <<transport, retries, server, caller, connects, backoff, seqno, last_sent_timestamp,
                   agent_state, stream, inbox, outbox, now, wire, enqueued,
                   features>>

----------------------------------------------------------------------------
\* connect

\* what the HEAD probe may meet: an HTTP status, or a transport error
HeadOutcomes ==
    IF server.up THEN {"200", "401"} ELSE {"200", "401", "404", "refused"}

\* The backoff arm shared by both transports: count the failure, give up with
\* a hard error beyond the retry limit, else sleep 2^backoff seconds and
\* answer soft.
\* the backoff arm with the exponent read before the failure is counted
connect_failed_stale(soft, what) ==
    LET b == backoff + 1 IN
    IF b > retries
    THEN [resp |-> Err(what), backoff |-> b, sleep |-> 0, fault |-> "refused"]
    ELSE [resp |-> soft, backoff |-> b, sleep |-> Pow2(backoff),
          fault |-> "refused"]

connect_failed(soft, what) ==
    LET b == backoff + 1 IN
    IF b > retries
    THEN [resp |-> Err(what), backoff |-> b, sleep |-> 0, fault |-> "refused"]
    ELSE [resp |-> soft, backoff |-> b, sleep |-> Pow2(b), fault |-> "refused"]

\* the attempt c counted: failed, or answered with a Reply
attempt(c) ==
    [failed |-> connects.failed + (IF c.fault # "" THEN 1 ELSE 0),
     succeeded |-> connects.succeeded \/ c.resp.kind = "Reply"]

\* HttpClient::connect
\* connect that counts a 404 answer like a refused connection
HttpConnect_404_counted(head) ==
    IF head \notin {"refused", "404"}
    THEN [resp |-> Reply("remote server present"),
          backoff |-> backoff, sleep |-> 0, fault |-> ""]
    ELSE [connect_failed(Error("endpoint not responding: retrying .."),
                         "Failed to connect to endpoint")
            EXCEPT !.fault = IF head = "404" THEN "" ELSE "refused"]

\* connect that forgets the failures counted when the server answers
HttpConnect_reset(head) ==
    IF head # "refused"
    THEN [resp |-> IF head # "404" THEN Reply("remote server present")
                                   ELSE Error("404 Not Found"),
          backoff |-> 0, sleep |-> 0, fault |-> ""]
    ELSE connect_failed(Error("endpoint not responding: retrying .."),
                        "Failed to connect to endpoint")

HttpConnect(head) ==
    IF head # "refused"
    THEN [resp |-> IF head # "404" THEN Reply("remote server present")
                                   ELSE Error("404 Not Found"),
          backoff |-> backoff, sleep |-> 0, fault |-> ""]
    ELSE connect_failed(Error("endpoint not responding: retrying .."),
                        "Failed to connect to endpoint")

TickHttpConnect ==
    /\ Running("http", "Connecting")
    /\ \E head \in HeadOutcomes :
         \E c \in {HttpConnect(head)} :
         /\ c.backoff <= retries + MaxOverrun
         /\ backoff' = c.backoff
         /\ now' = now + c.sleep
         /\ connects' = attempt(c)
         /\ trigger(c.resp, <<"connect">>, c.sleep, <<>>, c.fault)
    /\ UNCHANGED <<transport, retries, server, caller, seqno, last_sent_timestamp, agent_state,
                   stream, inbox, outbox, wire, enqueued, features>>

\* what connect_async may meet
WsConnectOutcomes ==
    IF server.up THEN {"connected"} ELSE {"connected", "refused"}

\* WsClient::connect: set_health(false), then the connection attempt; the
\* stream is assigned only when the attempt succeeded
WsConnect(conn) ==
    IF conn = "connected"
    THEN [resp |-> Reply("connected"), backoff |-> backoff, sleep |-> 0,
          fault |-> "", stream |-> Some("socket")]
    ELSE [stream |-> stream] @@
         connect_failed(RNone, "Failed to connect to websocket")

TickWsConnect ==
    /\ Running("ws", "Connecting")
    /\ \E conn \in WsConnectOutcomes, in \in StatusInputs(agent_state) :
         \E c \in {WsConnect(conn)} :
         /\ c.backoff <= retries + MaxOverrun
         /\ agent_state' = set_health(agent_state, FALSE, in)
         /\ features' = features_after(agent_state, in)
         /\ backoff' = c.backoff
         /\ stream' = c.stream
         /\ now' = now + c.sleep
         /\ connects' = attempt(c)
         /\ trigger_cb(c.resp, <<"connect">>, c.sleep, status_calls(agent_state),
                       c.fault, status_errs(agent_state, in),
                       status_mutex(agent_state))
    /\ UNCHANGED <<transport, retries, server, caller, seqno, last_sent_timestamp, inbox,
                   outbox, wire, enqueued>>

----------------------------------------------------------------------------
\* handshake: enqueue the full state and answer Reply (get_status never
\* returns Err, so the Error arm is dead)

\* HttpClient::handshake
\* a handshake that enqueues the status it built without keeping it
TickHttpHandshakeUnkept ==
    /\ Running("http", "Connected")
    /\ \E in \in StatusInputs(agent_state) :
         \E st \in {get_status(agent_state, in)} :
         /\ agent_state' = agent_state
         /\ features' = features_after(agent_state, in)
         /\ outbox' = push(outbox, Unwrap(st))
         /\ enqueued' = enqueued + 1
         /\ trigger_cb(Reply("Handshake enqueued"), <<"handshake">>, 0,
                       status_calls(agent_state), "",
                       status_errs(agent_state, in),
                       status_mutex(agent_state))
    /\ UNCHANGED <<transport, retries, server, caller, connects, backoff, seqno, last_sent_timestamp,
                   stream, inbox, now, wire>>

TickHttpHandshake ==
    /\ Running("http", "Connected")
    /\ \E in \in StatusInputs(agent_state) :
         \E st \in {get_status(agent_state, in)} :
         /\ agent_state' = st
         /\ features' = features_after(agent_state, in)
         /\ outbox' = push(outbox, Unwrap(st))
         /\ enqueued' = enqueued + 1
         /\ trigger_cb(Reply("Handshake enqueued"), <<"handshake">>, 0,
                       status_calls(agent_state), "",
                       status_errs(agent_state, in),
                       status_mutex(agent_state))
    /\ UNCHANGED <<transport, retries, server, caller, connects, backoff, seqno, last_sent_timestamp,
                   stream, inbox, now, wire>>

\* WsClient::handshake
TickWsHandshake ==
    /\ Running("ws", "Connected")
    /\ \E in \in StatusInputs(agent_state) :
         \E st \in {set_health(agent_state, FALSE, in)} :
         /\ agent_state' = st
         /\ features' = features_after(agent_state, in)
         /\ outbox' = push(outbox, Unwrap(st))
         /\ enqueued' = enqueued + 1
         /\ trigger_cb(Reply("handshake enqueued"), <<"handshake">>, 0,
                       status_calls(agent_state), "",
                       status_errs(agent_state, in),
                       status_mutex(agent_state))
    /\ UNCHANGED <<transport, retries, server, caller, connects, backoff, seqno, last_sent_timestamp,
                   stream, inbox, now, wire>>

----------------------------------------------------------------------------
\* wait: a no-op answering Reply(nullstr)

\* HttpClient::wait
TickHttpWaitNone ==
    /\ Running("http", "Waiting")
    /\ trigger(RNone, <<"wait">>, 0, <<>>, "")
    /\ UNCHANGED <<transport, retries, server, caller, connects, backoff, seqno, last_sent_timestamp,
                   agent_state, stream, inbox, outbox, now, wire, enqueued,
                   features>>

TickHttpWait ==
    /\ Running("http", "Waiting")
    /\ trigger(Reply(""), <<"wait">>, 0, <<>>, "")
    /\ UNCHANGED <<transport, retries, server, caller, connects, backoff, seqno, last_sent_timestamp,
                   agent_state, stream, inbox, outbox, now, wire, enqueued,
                   features>>

\* WsClient::wait
\* a wait that counts itself in seqno and names itself in its token
TickWsWaitCounted ==
    /\ Running("ws", "Waiting")
    /\ seqno < MaxSeq
    /\ seqno' = seqno + 1
    /\ trigger(Reply("waited"), <<"wait">>, 0, <<>>, "")
    /\ UNCHANGED <<transport, retries, server, caller, connects, backoff, last_sent_timestamp,
                   agent_state, stream, inbox, outbox, now, wire, enqueued,
                   features>>

TickWsWait ==
    /\ Running("ws", "Waiting")
    /\ trigger(Reply(""), <<"wait">>, 0, <<>>, "")
    /\ UNCHANGED <<transport, retries, server, caller, connects, backoff, seqno, last_sent_timestamp,
                   agent_state, stream, inbox, outbox, now, wire, enqueued,
                   features>>

----------------------------------------------------------------------------
\* The wire format of ServerToAgent, reduced to symbols: "x00" is a zero
\* byte (the protocol header byte; as a protobuf key it is the invalid tag
\* 0), every other symbol is the encoding of one field.

FieldSyms == {"uid_self", "uid_child", "report", "command", "error_response",
              "remote_config", "own_metrics", "own_traces", "own_logs",
              "packages_available"}

Range(q) == {q[i] : i \in 1..Len(q)}

\* ServerToAgent::decode: Err on a byte that starts no field, else the
\* message with the fields met (the empty input is the default message)
decode(bytes) ==
    IF Range(bytes) \subseteq FieldSyms
    THEN [ok |-> TRUE,
          msg |-> [instance_uid |->
                       IF "uid_self" \in Range(bytes) THEN InstanceId
                       ELSE IF "uid_child" \in Range(bytes) THEN "child"
                       ELSE "",
                   report |-> "report" \in Range(bytes),
                   present |-> Range(bytes) \ {"uid_self", "uid_child", "report"}]]
    ELSE [ok |-> FALSE, msg |-> <<>>]

\* the servers of the explored runs, each by the protobuf payloads it sends
\* and by whether it answers every connection attempt
Servers ==
    { [payloads |-> { <<>>, <<"uid_self", "report">> }, up |-> FALSE],
      [payloads |-> { <<"uid_self", "report", "command", "remote_config">>,
                      <<"uid_child", "report">> },
       up |-> TRUE],
      [payloads |-> { <<"error_response", "own_metrics", "own_logs">>,
                      <<"packages_available", "own_traces">> },
       up |-> TRUE],
      [payloads |-> { <<"remote_config">> }, up |-> TRUE] }

\* the pauses (seconds) a caller may leave between two ticks
Gaps == {SERVER_POLL_DELAY - 1, SERVER_POLL_DELAY + 1}

\* the callers of the explored runs: one that may be any user and may pause,
\* one that is the user with a configuration and polls without pause
Callers ==
    { [users |-> Users, gaps |-> Gaps],
      [users |-> {u \in Users : IsSome(u.cfg.val)}, gaps |-> {}] }

\* settings.server_endpoint, character by character; all of them URLs that
\* Url::parse accepts (new() unwraps the parse)
HttpUrl == <<"h", "t", "t", "p", ":">>
WsUrl == <<"w", "s", ":">>
Endpoints ==
    {HttpUrl, WsUrl,
     <<"h", "t", "t", "p", "s", ":">>, <<"w", "s", "s", ":">>,
     <<"h", "t", "t", ":">>, <<"x", "h", "t", "t", "p", ":">>,
     <<"H", "T", "T", "P", ":">>, <<"t", "c", "p", ":">>}

\* str::starts_with
starts_with_anywhere(s, pat) ==
    \E i \in 1..(Len(s) - Len(pat) + 1) : SubSeq(s, i, i + Len(pat) - 1) = pat

starts_with(s, pat) ==
    Len(s) >= Len(pat) /\ SubSeq(s, 1, Len(pat)) = pat

\* Api::new: the transport chosen for settings.server_endpoint
ApiNew(server_endpoint) ==
    IF starts_with(server_endpoint, <<"h", "t", "t", "p">>) THEN "http"
    ELSE "ws"

\* the explored runs: the small retry limits, any user and the pauses
\* against the server that may be down; the default limit and the busy
\* caller against the servers that are up
Runs ==
    {r \in [endpoint : {HttpUrl, WsUrl},
            retries : RetryLimits \cup {DEFAULT_CONNECT_RETRIES},
            server : Servers,
            caller : Callers] :
        /\ (r.retries = DEFAULT_CONNECT_RETRIES) <=> r.server.up
        /\ (r.caller.gaps = {}) <=> r.server.up}

----------------------------------------------------------------------------
\* The inbound dispatcher (the body of both polls after a message is at hand).

\* the call sites whose callback returns Result<Option<AgentToServer>>
\* the three connection_settings offers call the same callback
CallbackOf(site) ==
    CASE site = "command" -> "on_command"
      [] site = "error_response" -> "on_error"
      [] site = "report" -> "on_health_check"
      [] site = "remote_config" -> "on_agent_remote_config"
      [] site \in {"own_metrics", "own_traces", "own_logs"} ->
            "on_connection_settings_offers"
      [] site = "packages_available" -> "on_packages_available"
      [] site = "on_loop" -> "on_loop"

\* what a callback may return: Ok(None), Err(e), Ok(Some(message)); the
\* message carries whatever capabilities and flags the user put in it
CbResults == {[tag |-> "None", feat |-> <<0, 0>>],
              [tag |-> "Err", feat |-> <<0, 0>>]}
             \cup {[tag |-> "Some", feat |-> f] : f \in {<<0, 0>>}}

\* the message of an Ok(Some(reply))
reply(site, res) ==
    [AgentToServerDefault EXCEPT !.instance_uid = InstanceId,
                                 !.capabilities = res.feat[1],
                                 !.flags = res.feat[2],
                                 !.origin = CallbackOf(site)]

\* match func.on_x(&msg): Ok(Some(reply)) => push, Ok(None) and Err => nothing
on_result_err_replies(ob, site, res) ==
    IF res.tag # "None" THEN push(ob, reply(site, res)) ELSE ob

on_result(ob, site, res) ==
    IF res.tag = "Some" THEN push(ob, reply(site, res)) ELSE ob

\* the order in which the dispatcher looks at the fields of the message
DispatchOrder_config_first ==
    <<"remote_config", "command", "error_response", "report",
      "own_metrics", "own_traces", "own_logs", "packages_available">>

DispatchOrder == <<"command", "error_response", "report", "remote_config",
                   "own_metrics", "own_traces", "own_logs",
                   "packages_available">>

\* the Err arm of match func.on_x(&msg): logged
on_err(errs, site, res) ==
    IF res.tag = "Err" THEN Append(errs, site) ELSE errs

\* a callback asked for a reply at a call site, under the guard of its block:
\* acc = [outbox, store, calls, errs, mutex]
ask(acc, site, cb) ==
    [outbox |-> on_result(acc.outbox, site, cb[site]),
     store |-> acc.store,
     calls |-> Append(acc.calls, CallbackOf(site)),
     errs |-> on_err(acc.errs, site, cb[site]),
     mutex |-> acc.mutex \o guarded(<<CallbackOf(site)>>)]

\* one field of the dispatcher
dispatch_step(site, msg, acc, cb, ws, in) ==
    CASE site = "report" ->
            IF ~msg.report THEN acc
            ELSE IF msg.instance_uid = InstanceId
            THEN LET s1 == IF ws THEN set_health(acc.store, TRUE, in)
                                 ELSE acc.store
                     s2 == get_status(s1, in)
                 IN [acc EXCEPT !.outbox = push(acc.outbox, Unwrap(s2)),
                                !.store = s2,
                                !.mutex = @ \o status_mutex(acc.store)]
            ELSE ask(acc, site, cb)
      [] site = "error_response" ->
            IF site \in msg.present
            THEN [acc EXCEPT !.calls = Append(acc.calls, CallbackOf(site)),
                             !.mutex = @ \o guarded(<<CallbackOf(site)>>)]
            ELSE acc
      [] OTHER ->
            IF site \in msg.present THEN ask(acc, site, cb) ELSE acc

RECURSIVE dispatch_from(_, _, _, _, _, _)
dispatch_from(i, msg, acc, cb, ws, in) ==
    IF i > Len(DispatchOrder) THEN acc
    ELSE dispatch_from(i + 1, msg,
                       dispatch_step(DispatchOrder[i], msg, acc, cb, ws, in),
                       cb, ws, in)

\* the dispatcher: every field of msg, in DispatchOrder
dispatch(msg, ob, store, cb, ws, in) ==
    dispatch_from(1, msg,
                  [outbox |-> ob, store |-> store, calls |-> <<>>,
                   errs |-> <<>>, mutex |-> <<>>],
                  cb, ws, in)

\* the on_loop block that ends a poll
on_loop_first(acc, cb) ==
    LET a == ask(acc, "on_loop", cb) IN
    IF Len(a.outbox) > Len(acc.outbox)
    THEN [a EXCEPT !.outbox = <<a.outbox[Len(a.outbox)]>> \o acc.outbox]
    ELSE a

on_loop(acc, cb) == ask(acc, "on_loop", cb)

\* the last lines of both polls
\* the last lines answering Reply whatever the outbox holds
poll_result_always_pending(ob) == Reply("messages pending")

poll_result(ob) ==
    IF ob = <<>> THEN RNone ELSE Reply("messages pending")

\* the call sites that ask a callback for a reply when msg is dispatched
ReplySites(msg) ==
    (msg.present \ {"error_response"})
    \cup (IF msg.report /\ msg.instance_uid # InstanceId THEN {"report"} ELSE {})
    \cup {"on_loop"}

AllSites == Range(DispatchOrder) \cup {"on_loop"}
NoReplies == [s \in AllSites |-> [tag |-> "None", feat |-> <<0, 0>>]]

\* the answers of the callbacks asked in one poll; Err, which the dispatcher
\* treats like Ok(None), is explored for one callback at a time
CallbackChoices(sites) ==
    {cb \in [sites -> CbResults] :
        \A s, t \in sites : cb[s].tag = "Err" /\ cb[t].tag = "Err" => s = t}

----------------------------------------------------------------------------
\* poll

\* The health transition that opens both polls: get_health() unwraps the
\* store; an unhealthy agent is set healthy and a health message is pushed.
\* the health transition without its set_health(true)
health_transition_stale(in) ==
    LET h == Unwrap(get_health(agent_state)) IN
    IF ~h.healthy
    THEN [store |-> agent_state,
          outbox |-> push(outbox,
                          [AgentToServerDefault EXCEPT
                             !.instance_uid = InstanceId,
                             !.health = Some([h EXCEPT !.healthy = TRUE]),
                             !.origin = "health"])]
    ELSE [store |-> agent_state, outbox |-> outbox]

health_transition_skipped(in) ==
    [store |-> agent_state, outbox |-> outbox]

health_transition(in) ==
    LET h == Unwrap(get_health(agent_state)) IN
    IF ~h.healthy
    THEN [store |-> set_health(agent_state, TRUE, in),
          outbox |-> push(outbox,
                          [AgentToServerDefault EXCEPT
                             !.instance_uid = InstanceId,
                             !.health = Some([h EXCEPT !.healthy = TRUE]),
                             !.origin = "health"])]
    ELSE [store |-> agent_state, outbox |-> outbox]

\* the heartbeat of HttpClient::poll: AgentToServer with instance_uid alone
heartbeat_with_health ==
    [AgentToServerDefault EXCEPT !.instance_uid = InstanceId,
                                 !.health = Unwrap(agent_state).health,
                                 !.origin = "heartbeat"]

heartbeat ==
    [AgentToServerDefault EXCEPT !.instance_uid = InstanceId,
                                 !.origin = "heartbeat"]

PollPanic ==
    [resp |-> Panic, outbox |-> outbox, inbox |-> inbox, store |-> agent_state,
     calls |-> <<>>, fault |-> "", errs |-> <<>>, mutex |-> <<>>]

\* HttpClient::poll
\* the poll without its return on a non-empty outbox
HttpPoll_dispatch_first(cb, in) ==
    IF agent_state = None \/ Unwrap(agent_state).health = None
    THEN PollPanic
    ELSE
    LET t == health_transition(in) IN
    IF now >= last_sent_timestamp + SERVER_POLL_DELAY
    THEN [resp |-> Reply("server poll"), outbox |-> push(t.outbox, heartbeat),
          inbox |-> inbox, store |-> t.store, calls |-> <<>>, fault |-> "",
          errs |-> <<>>, mutex |-> <<>>]
    ELSE IF inbox = <<>>
    THEN [resp |-> poll_result(t.outbox), outbox |-> t.outbox, inbox |-> inbox,
          store |-> t.store, calls |-> <<>>, fault |-> "",
          errs |-> <<>>, mutex |-> <<>>]
    ELSE
    LET msg == inbox[Len(inbox)]
        d == on_loop(dispatch(msg, t.outbox, t.store, cb, FALSE, in), cb)
    IN [resp |-> poll_result(d.outbox), outbox |-> d.outbox,
        inbox |-> SubSeq(inbox, 1, Len(inbox) - 1), store |-> d.store,
        calls |-> d.calls, fault |-> "", errs |-> d.errs, mutex |-> d.mutex]

\* the poll that clears the inbox when it dispatches
HttpPoll_drain(cb, in) ==
    IF agent_state = None \/ Unwrap(agent_state).health = None
    THEN PollPanic
    ELSE
    LET t == health_transition(in) IN
    IF t.outbox # <<>>
    THEN [resp |-> Reply("flushing queue"), outbox |-> t.outbox,
          inbox |-> inbox, store |-> t.store, calls |-> <<>>, fault |-> "",
          errs |-> <<>>, mutex |-> <<>>]
    ELSE IF now >= last_sent_timestamp + SERVER_POLL_DELAY
    THEN [resp |-> Reply("server poll"), outbox |-> push(t.outbox, heartbeat),
          inbox |-> inbox, store |-> t.store, calls |-> <<>>, fault |-> "",
          errs |-> <<>>, mutex |-> <<>>]
    ELSE IF inbox = <<>>
    THEN [resp |-> RNone, outbox |-> t.outbox, inbox |-> inbox,
          store |-> t.store, calls |-> <<>>, fault |-> "",
          errs |-> <<>>, mutex |-> <<>>]
    ELSE
    LET msg == inbox[Len(inbox)]
        d == on_loop(dispatch(msg, t.outbox, t.store, cb, FALSE, in), cb)
    IN [resp |-> poll_result(d.outbox), outbox |-> d.outbox,
        inbox |-> <<>>, store |-> d.store,
        calls |-> d.calls, fault |-> "", errs |-> d.errs, mutex |-> d.mutex]

HttpPoll(cb, in) ==
    IF agent_state = None \/ Unwrap(agent_state).health = None
    THEN PollPanic
    ELSE
    LET t == health_transition(in) IN
    IF t.outbox # <<>>
    THEN [resp |-> Reply("flushing queue"), outbox |-> t.outbox,
          inbox |-> inbox, store |-> t.store, calls |-> <<>>, fault |-> "",
          errs |-> <<>>, mutex |-> <<>>]
    ELSE IF now >= last_sent_timestamp + SERVER_POLL_DELAY
    THEN [resp |-> Reply("server poll"), outbox |-> push(t.outbox, heartbeat),
          inbox |-> inbox, store |-> t.store, calls |-> <<>>, fault |-> "",
          errs |-> <<>>, mutex |-> <<>>]
    ELSE IF inbox = <<>>
    THEN [resp |-> RNone, outbox |-> t.outbox, inbox |-> inbox,
          store |-> t.store, calls |-> <<>>, fault |-> "",
          errs |-> <<>>, mutex |-> <<>>]
    ELSE
    LET msg == inbox[Len(inbox)]
        d == on_loop(dispatch(msg, t.outbox, t.store, cb, FALSE, in), cb)
    IN [resp |-> poll_result(d.outbox), outbox |-> d.outbox,
        inbox |-> SubSeq(inbox, 1, Len(inbox) - 1), store |-> d.store,
        calls |-> d.calls, fault |-> "", errs |-> d.errs, mutex |-> d.mutex]

\* the callbacks HttpClient::poll will ask for a reply in this state
HttpPollSites(in) ==
    IF HttpPoll(NoReplies, in).calls = <<>> THEN {}
    ELSE ReplySites(inbox[Len(inbox)])

TickHttpPoll ==
    /\ Running("http", "Polling")
    /\ \E in \in StatusInputs(agent_state) :
       \E cb \in CallbackChoices(HttpPollSites(in)) :
         \E p \in {HttpPoll(cb, in)} :
         /\ agent_state' = p.store
         /\ outbox' = p.outbox
         /\ inbox' = p.inbox
         /\ enqueued' = enqueued + (Len(p.outbox) - Len(outbox))
         /\ trigger_cb(p.resp, <<"poll">>, 0, p.calls, "", p.errs, p.mutex)
    /\ UNCHANGED <<transport, retries, server, caller, connects, backoff, seqno, last_sent_timestamp,
                   stream, now, wire, features>>

\* what WsClient::receive may meet on the socket
WsReads ==
    {[kind |-> "Binary", bytes |-> <<"x00">> \o pl] : pl \in server.payloads}
    \cup {[kind |-> "Binary", bytes |-> <<>>],
          [kind |-> "Binary", bytes |-> <<"x00", "x00">>],
          [kind |-> "Text", bytes |-> <<>>],
          [kind |-> "Error", bytes |-> <<>>],
          [kind |-> "Closed", bytes |-> <<>>]}

\* the message WsClient::poll dispatches for what receive returned:
\* a binary frame, its first byte skipped, that decodes
ws_inbound(rd) ==
    IF rd.kind = "Binary" /\ rd.bytes # <<>> /\ decode(Tail(rd.bytes)).ok
    THEN Some(decode(Tail(rd.bytes)).msg)
    ELSE None

\* WsClient::poll
WsPoll(rd, cb, in) ==
    IF agent_state = None \/ Unwrap(agent_state).health = None
    THEN PollPanic
    ELSE
    LET t == health_transition(in) IN
    IF t.outbox # <<>>
    THEN [resp |-> Reply("flushing queue"), outbox |-> t.outbox,
          inbox |-> inbox, store |-> t.store, calls |-> <<>>, fault |-> "",
          errs |-> <<>>, mutex |-> <<>>]
    ELSE IF stream = None
    THEN [PollPanic EXCEPT !.store = t.store, !.fault = "no socket"]
    ELSE IF rd.kind = "Binary" /\ rd.bytes = <<>>
    THEN [PollPanic EXCEPT !.store = t.store]
    ELSE
    LET got == ws_inbound(rd)
        acc == [outbox |-> t.outbox, store |-> t.store, calls |-> <<>>,
                errs |-> <<>>, mutex |-> <<>>]
        d == on_loop(IF IsSome(got)
                     THEN dispatch(Unwrap(got), t.outbox, t.store, cb, TRUE, in)
                     ELSE acc, cb)
    IN [resp |-> poll_result(d.outbox), outbox |-> d.outbox, inbox |-> inbox,
        store |-> d.store, calls |-> d.calls, errs |-> d.errs,
        mutex |-> d.mutex,
        fault |-> CASE rd.kind = "Error" -> "read failed"
                    [] rd.kind = "Closed" -> "closed"
                    [] OTHER -> ""]

\* the callbacks WsClient::poll will ask for a reply
WsPollSites(rd, in) ==
    IF WsPoll(rd, NoReplies, in).calls = <<>> THEN {}
    ELSE IF IsSome(ws_inbound(rd)) THEN ReplySites(Unwrap(ws_inbound(rd)))
    ELSE {"on_loop"}

TickWsPoll ==
    /\ Running("ws", "Polling")
    /\ \E in \in StatusInputs(agent_state), rd \in WsReads :
       \E cb \in CallbackChoices(WsPollSites(rd, in)) :
         \E p \in {WsPoll(rd, cb, in)} :
         /\ agent_state' = p.store
         /\ outbox' = p.outbox
         /\ enqueued' = enqueued + (Len(p.outbox) - Len(outbox))
         /\ trigger_cb(p.resp, <<"poll">>, 0, p.calls, p.fault, p.errs,
                       p.mutex)
    /\ UNCHANGED <<transport, retries, server, caller, connects, backoff, seqno, last_sent_timestamp,
                   stream, inbox, now, wire, features>>

----------------------------------------------------------------------------
\* send

\* The stamp put on a message before it is encoded: the next sequence number,
\* and the capabilities and flags given.
stamp_unordered(msg, seq, caps, flags) ==
    [msg EXCEPT !.sequence_num = seqno + 1, !.capabilities = caps,
                !.flags = flags]

stamp_unstamped(msg, seq, caps, flags) ==
    [msg EXCEPT !.sequence_num = seq]

stamp(msg, seq, caps, flags) ==
    [msg EXCEPT !.sequence_num = seq, !.capabilities = caps, !.flags = flags]

\* what a POST may meet: a 2xx response, with its Content-Encoding header
\* (or none) and its body, that send_and_receive can decode ...
OkPosts ==
    {[kind |-> "200", encoding |-> "absent", body |-> pl] : pl \in server.payloads}
    \cup {[kind |-> "200", encoding |-> "identity", body |-> <<"x00">> \o pl] :
            pl \in server.payloads}

\* ... or no connection, a non-2xx status, or a 2xx response it cannot:
\* the header byte where none is skipped, a gzip body, an empty body
BadPosts ==
    {[kind |-> "refused", encoding |-> "absent", body |-> <<>>],
     [kind |-> "503", encoding |-> "absent", body |-> <<>>],
     [kind |-> "200", encoding |-> "absent", body |-> <<"x00">>],
     [kind |-> "200", encoding |-> "gzip", body |-> <<"gzip", "x00">>],
     [kind |-> "200", encoding |-> "identity", body |-> <<>>]}

\* the runs of n POSTs that send can go through: all answered, or the
\* first k answered and the next one not (send stops there)
PostRuns(n) ==
    [1..n -> OkPosts]
    \cup UNION {{oks \o <<bad>> : oks \in [1..k -> OkPosts], bad \in BadPosts} :
                  k \in 0..(n - 1)}

\* libdeflater gzip_decompress into an output slice of out_len bytes: the
\* gzip member (marked "gzip") must be well formed and fit
gzip_decompress(data, out_len) ==
    IF data = <<>> \/ data[1] # "gzip" THEN [ok |-> FALSE, data |-> <<>>]
    ELSE IF Len(Tail(data)) > out_len THEN [ok |-> FALSE, data |-> <<>>]
    ELSE [ok |-> TRUE, data |-> Tail(data)]

\* The tail of send_and_receive: the ServerToAgent of a 2xx response, or a
\* panic (an unwrap of a failed decompression or decode, a slice past the end).
\* The buffer handed to gzip_decompress is Vec::with_capacity(4096): its
\* slice is empty, and the Vec stays empty after the call.
decode_response(post) ==
    IF post.encoding = "absent"
    THEN decode(post.body)
    ELSE IF post.encoding = "gzip"
    THEN LET decompressed_data == <<>>
             z == gzip_decompress(post.body, Len(decompressed_data))
         IN IF ~z.ok \/ Len(decompressed_data) < 1
            THEN [ok |-> FALSE, msg |-> <<>>]
            ELSE decode(Tail(decompressed_data))
    ELSE IF Len(post.body) < 1
    THEN [ok |-> FALSE, msg |-> <<>>]
    ELSE decode(Tail(post.body))

\* HttpClient::send_and_receive for one message; acc carries seqno,
\* last_sent_timestamp, inbox and wire through the loop of send
\* send_and_receive whose failure reaches evaluate as a hard error
send_and_receive_hard(msg, post, acc) ==
    LET seq == acc.seqno + 1
        out == IF IsSome(agent_state)
               THEN stamp(msg, seq, Unwrap(agent_state).capabilities,
                          Unwrap(agent_state).flags)
               ELSE stamp(msg, seq, msg.capabilities, msg.flags)
        sent == [acc EXCEPT !.seqno = seq, !.last_sent_timestamp = now,
                            !.wire = Append(acc.wire,
                                            out)]
    IN IF post.kind # "200"
       THEN [sent EXCEPT !.resp = Err("Service Error"), !.fault = post.kind]
       ELSE IF ~decode_response(post).ok
       THEN [sent EXCEPT !.resp = Panic]
       ELSE [sent EXCEPT !.inbox = Append(acc.inbox, decode_response(post).msg)]

send_and_receive(msg, post, acc) ==
    LET seq == acc.seqno + 1
        out == IF IsSome(agent_state)
               THEN stamp(msg, seq, Unwrap(agent_state).capabilities,
                          Unwrap(agent_state).flags)
               ELSE stamp(msg, seq, msg.capabilities, msg.flags)
        sent == [acc EXCEPT !.seqno = seq, !.last_sent_timestamp = now,
                            !.wire = Append(acc.wire,
                                            out)]
    IN IF post.kind # "200"
       THEN [sent EXCEPT !.resp = Error("Service Error"), !.fault = post.kind]
       ELSE IF ~decode_response(post).ok
       THEN [sent EXCEPT !.resp = Panic]
       ELSE [sent EXCEPT !.inbox = Append(acc.inbox, decode_response(post).msg)]

\* HttpClient::send: the loop over the taken outbox, left at the first Err
RECURSIVE http_send_loop_reversed(_, _, _)
http_send_loop_reversed(pending, posts, acc) ==
    IF pending = <<>> \/ acc.resp.kind # "Reply" THEN acc
    ELSE http_send_loop_reversed(SubSeq(pending, 1, Len(pending) - 1),
                                 Tail(posts),
                                 send_and_receive(pending[Len(pending)],
                                                  Head(posts), acc))

RECURSIVE http_send_loop(_, _, _)
http_send_loop(pending, posts, acc) ==
    IF pending = <<>> \/ acc.resp.kind # "Reply" THEN acc
    ELSE http_send_loop(Tail(pending), Tail(posts),
                        send_and_receive(Head(pending), Head(posts), acc))

HttpSend(posts) ==
    http_send_loop(outbox, posts,
                   [seqno |-> seqno, last_sent_timestamp |-> last_sent_timestamp,
                    inbox |-> inbox, wire |-> wire, resp |-> Reply("sent"),
                    fault |-> ""])

TickHttpSend ==
    /\ Running("http", "Sending")
    /\ seqno + Len(outbox) <= MaxSeq
    /\ \E posts \in PostRuns(Len(outbox)) :
         \E r \in {HttpSend(posts)} :
         /\ outbox' = <<>>
         /\ seqno' = r.seqno
         /\ last_sent_timestamp' = r.last_sent_timestamp
         /\ inbox' = r.inbox
         /\ wire' = r.wire
         /\ trigger(r.resp, <<"send">>, 0, <<>>, r.fault)
    /\ UNCHANGED <<transport, retries, server, caller, connects, backoff, agent_state, stream, now,
                   enqueued, features>>

\* WsClient::to_sink for one message of flush: the stream is unwrapped, the
\* frame written; flush expects the write to succeed
to_sink(out, written, acc) ==
    IF stream = None THEN [acc EXCEPT !.resp = Panic, !.fault = "no socket"]
    ELSE IF ~written
    THEN [acc EXCEPT !.wire = Append(acc.wire, out), !.resp = Panic,
                     !.fault = "write failed"]
    ELSE [acc EXCEPT !.wire = Append(acc.wire, out)]

\* WsClient::flush: the loop over the taken outbox
RECURSIVE flush_loop(_, _, _, _, _)
flush_loop(pending, writes, capabilities, flags, acc) ==
    IF pending = <<>> \/ acc.resp.kind # "Reply" THEN acc
    ELSE LET seq == acc.seqno + 1
             out == stamp(Head(pending), seq, capabilities, flags)
         IN flush_loop(Tail(pending), Tail(writes), capabilities, flags,
                       to_sink(out, Head(writes), [acc EXCEPT !.seqno = seq]))

\* the runs of n socket writes that flush can go through: all written, or
\* the first k written and the next one failed (flush panics there)
WriteRuns(n) ==
    {[i \in 1..n |-> TRUE]}
    \cup {[i \in 1..(k + 1) |-> i <= k] : k \in 0..(n - 1)}

\* WsClient::send = flush().unwrap(), then Reply
WsSend(writes) ==
    LET known == IsSome(agent_state)
        capabilities == IF known THEN Unwrap(agent_state).capabilities ELSE 0
        flags == IF known THEN Unwrap(agent_state).flags ELSE 0
    IN flush_loop(outbox, writes, capabilities, flags,
                  [seqno |-> seqno, wire |-> wire,
                   resp |-> Reply("messages sent"), fault |-> ""])

TickWsSend ==
    /\ Running("ws", "Sending")
    /\ seqno + Len(outbox) <= MaxSeq
    /\ \E writes \in WriteRuns(Len(outbox)) :
         \E r \in {WsSend(writes)} :
         /\ outbox' = <<>>
         /\ seqno' = r.seqno
         /\ wire' = r.wire
         /\ trigger(r.resp, <<"send">>, 0, <<>>, r.fault)
    /\ UNCHANGED <<transport, retries, server, caller, connects, backoff, last_sent_timestamp,
                   agent_state, stream, inbox, now, enqueued, features>>

----------------------------------------------------------------------------
\* The caller's loop does other work between two ticks: the wall clock moves
\* on.  Only HttpClient::poll compares the clock (with last_sent_timestamp), so
\* the time that passes anywhere between a send and a poll passes here.

Elapse ==
    /\ Running("http", "Polling")
    /\ \E g \in caller.gaps : now + g <= MaxTime /\ now' = now + g
    /\ UNCHANGED <<transport, retries, server, caller, connects, state, backoff, seqno,
                   last_sent_timestamp, agent_state, stream, inbox, outbox,
                   panicked, wire, enqueued, features, tick>>

----------------------------------------------------------------------------
\* Api::new: the transport by the endpoint, the client as constructed.

\* the fields of a client just constructed, and empty histories
Constructed ==
    /\ backoff = 0
    /\ seqno = 0
    /\ last_sent_timestamp = 0
    /\ agent_state = None
    /\ stream = None
    /\ inbox = <<>>
    /\ outbox = <<>>
    /\ now = StartTime
    /\ panicked = FALSE
    /\ wire = <<>>
    /\ enqueued = 0
    /\ features = <<>>
    /\ connects = [failed |-> 0, succeeded |-> FALSE]
    /\ tick = [from |-> "", ops |-> <<>>, resp |-> "", sleep |-> 0,
               calls |-> <<>>, fault |-> "", errs |-> <<>>, n |-> 0,
               mutex |-> <<>>]

Init ==
    /\ \E r \in Runs :
         /\ transport = ApiNew(r.endpoint)
         /\ retries = r.retries
         /\ server = r.server
         /\ caller = [users |-> r.caller.users, gaps |-> r.caller.gaps,
                      endpoint |-> r.endpoint]
    /\ state = St("Disconnected", "")
    /\ Constructed

Next ==
    \/ TickDisconnected
    \/ TickHttpConnect
    \/ TickHttpHandshake
    \/ TickHttpPoll
    \/ TickHttpSend
    \/ TickHttpWait
    \/ TickWsConnect
    \/ TickWsHandshake
    \/ TickWsPoll
    \/ TickWsSend
    \/ TickWsWait
    \/ Elapse

Spec == Init /\ [][Next]_vars

\* Api::new for every endpoint: one server, one user who may pause
InitNew ==
    /\ \E e \in Endpoints :
         /\ transport = ApiNew(e)
         /\ caller = [users |-> {u \in Users : IsSome(u.cfg.val)},
                      gaps |-> Gaps, endpoint |-> e]
    /\ retries = DEFAULT_CONNECT_RETRIES
    /\ server = [payloads |-> { <<"remote_config">> }, up |-> TRUE]
    /\ state = St("Disconnected", "")
    /\ Constructed

SpecNew == InitNew /\ [][Next]_vars

----------------------------------------------------------------------------
\* The HTTP client polled for ever: every tick is eventually taken, every
\* POST is answered with a response that decodes.  So that the states are
\* finitely many, the histories wire and enqueued are not kept and seqno is
\* counted up to MaxSeq only; none of them is read by poll, send or wait.
\* One response in the inbox at a time is followed: its field tracked is
\* TRUE from the send that pushed it to the poll that takes it out.

Tracked(box) == \E i \in DOMAIN box : box[i].tracked

\* the responses a send pushed, the k-th of them followed (none when k = 0)
Followed(new, k) == [i \in DOMAIN new |-> new[i] @@ [tracked |-> (i = k)]]

\* HttpClient::poll, any answers of the callbacks
LiveHttpPoll ==
    /\ Running("http", "Polling")
    /\ \E in \in StatusInputs(agent_state) :
       \E cb \in CallbackChoices(HttpPollSites(in)) :
         \E p \in {HttpPoll(cb, in)} :
         /\ agent_state' = p.store
         /\ outbox' = p.outbox
         /\ inbox' = p.inbox
         /\ trigger_cb(p.resp, <<"poll">>, 0, p.calls, "", p.errs, p.mutex)
    /\ UNCHANGED <<transport, retries, server, caller, connects, backoff, seqno,
                   last_sent_timestamp, stream, now, wire, features, enqueued>>

\* HttpClient::send, every POST answered
LiveHttpSend ==
    /\ Running("http", "Sending")
    /\ \E posts \in [1..Len(outbox) -> OkPosts] :
         \E r \in {HttpSend(posts)} :
         \E k \in 0..Len(outbox) :
         /\ k > 0 => ~Tracked(inbox)
         /\ outbox' = <<>>
         /\ seqno' = IF r.seqno < MaxSeq THEN r.seqno ELSE MaxSeq
         /\ last_sent_timestamp' = r.last_sent_timestamp
         /\ inbox' = inbox \o Followed(SubSeq(r.inbox, Len(inbox) + 1,
                                              Len(r.inbox)), k)
         /\ trigger(r.resp, <<"send">>, 0, <<>>, r.fault)
    /\ UNCHANGED <<transport, retries, server, caller, connects, backoff, agent_state, stream, now,
                   enqueued, features, wire>>

\* one call of Api::poll() by the caller
LiveTick ==
    \/ TickDisconnected
    \/ TickHttpConnect
    \/ TickHttpHandshake
    \/ LiveHttpPoll
    \/ LiveHttpSend
    \/ TickHttpWait

InitLive ==
    /\ transport = ApiNew(HttpUrl)
    /\ retries = DEFAULT_CONNECT_RETRIES
    /\ server = [payloads |-> { <<>>, <<"error_response">> }, up |-> TRUE]
    /\ caller = [users |-> {u \in Users : IsSome(u.cfg.val)}, gaps |-> Gaps,
                 endpoint |-> HttpUrl]
    /\ state = St("Disconnected", "")
    /\ Constructed

NextLive == LiveTick \/ Elapse

\* the caller keeps calling poll()
SpecLive == InitLive /\ [][NextLive]_vars /\ WF_vars(LiveTick)

----------------------------------------------------------------------------
\* State::evaluate on its own: a Channel whose five operations answer
\* whatever the caller of evaluate may get, started in any state.

\* the tokens a state or a response carries
Tokens == {"", "remote server present", "Service Error", "flushing queue",
           "invalid"}

\* Ok(Reply(t)), Ok(None), Ok(Error(t)), Err(e)
Responses ==
    {Reply(t) : t \in Tokens} \cup {RNone} \cup {Error(t) : t \in Tokens}
    \cup {Err(t) : t \in Tokens}

\* the Channel operation evaluate calls in each state
OperationOf(name) ==
    CASE name = "Disconnected" -> <<>>
      [] name = "Connecting" -> <<"connect">>
      [] name = "Connected" -> <<"handshake">>
      [] name = "Polling" -> <<"poll">>
      [] name = "Sending" -> <<"send">>
      [] name = "Waiting" -> <<"wait">>

\* trigger on that Channel: the operation bound to the state answers r
TickAnyChannel ==
    /\ \E r \in (IF state.name = "Disconnected" THEN {RNone} ELSE Responses) :
         trigger(r, OperationOf(state.name), 0, <<>>, "")
    /\ UNCHANGED <<transport, retries, server, caller, connects, backoff, seqno,
                   last_sent_timestamp, agent_state, stream, inbox, outbox, now,
                   wire, enqueued, features>>

InitEval ==
    /\ transport = "any"
    /\ retries = DEFAULT_CONNECT_RETRIES
    /\ server = [payloads |-> {<<>>}, up |-> TRUE]
    /\ caller = [users |-> Users, gaps |-> {}, endpoint |-> <<>>]
    /\ state \in {St(n, t) : n \in StateNames, t \in Tokens}
    /\ Constructed

NextEval == TickAnyChannel

SpecEval == InitEval /\ [][NextEval]_vars

----------------------------------------------------------------------------
\* Properties.

\* The transition table as the specification prints it: per state, the next
\* state in the columns Reply, None, Error, Err.
SpecTable ==
    [Connecting |-> <<"Connected", "Connected", "Disconnected", "Disconnected">>,
     Connected |-> <<"Sending", "Polling", "Disconnected", "Disconnected">>,
     Polling |-> <<"Sending", "Polling", "Disconnected", "Connecting">>,
     Sending |-> <<"Waiting", "Polling", "Polling", "Connecting">>,
     Waiting |-> <<"Polling", "Waiting", "Polling", "Connecting">>]

Column(resp) ==
    CASE resp = "Reply" -> 1
      [] resp = "None" -> 2
      [] resp = "Error" -> 3
      [] resp = "Err" -> 4

\* the messages a callback returned
FromCallback(m) == m.origin \notin {"full_state", "health", "heartbeat"}

\* C1: for every state among Connecting, Connected, Polling, Sending and
\* Waiting and every outcome (Reply, None, Error, Err) of the operation bound
\* to it, the state evaluate returns is the one the specification's table
\* gives.
C1_EvaluateFollowsTable ==
    tick.from \in DOMAIN SpecTable =>
        state.name = SpecTable[tick.from][Column(tick.resp)]

\* wait answered None and the state stayed Waiting
C1_Witness ==
    tick.from = "Waiting" /\ tick.resp = "None" /\ state.name = "Waiting"

\* C2: the sequence numbers of the messages handed to the network are
\* strictly increasing, in both transports, over the whole run (failed sends
\* and failed connects included).
C2_SequenceNumsIncrease ==
    \A i, j \in DOMAIN wire :
        i < j => wire[i].sequence_num < wire[j].sequence_num

\* a send that failed, after an earlier message and after a failed connect
C2_Witness ==
    /\ Len(wire) >= 2
    /\ tick.ops = <<"send">> /\ tick.resp = "Error"
    /\ connects.failed > 0

\* C3: every message handed to the network carries the capabilities and
\* flags that the first call of get_features returned, whoever built the
\* message.
C3_FeaturesStamped ==
    \A i \in DOMAIN wire :
        /\ features # <<>>
        /\ wire[i].capabilities = features[1][1]
        /\ wire[i].flags = features[1][2]

\* a callback's reply, built with capabilities 0, went out with the 3 and 1
\* of get_features
C3_Witness ==
    \E i \in DOMAIN wire :
        /\ FromCallback(wire[i])
        /\ features[1] = <<3, 1>>
        /\ wire[i].capabilities = 3 /\ wire[i].flags = 1

\* C4: of two messages handed to the network, the one enqueued first was
\* handed over first and has the smaller sequence number.
C4_SentInEnqueueOrder ==
    \A i, j \in DOMAIN wire :
        wire[i].enq < wire[j].enq =>
            i < j /\ wire[i].sequence_num < wire[j].sequence_num

\* one send transmitted two replies that one poll had enqueued
C4_Witness ==
    /\ tick.ops = <<"send">>
    /\ \E i \in DOMAIN wire :
         /\ i + 1 \in DOMAIN wire
         /\ FromCallback(wire[i])
         /\ wire[i + 1].origin = "on_loop"
         /\ wire[i + 1].enq = wire[i].enq + 1

\* C5: a tick invokes the one transport operation bound to the state it
\* started in (none in Disconnected), and the state stored after a tick
\* that returned is what evaluate gives for that state and that
\* operation's result.
C5_OneTransitionPerTick ==
    tick.from # "" =>
        /\ tick.ops = OperationOf(tick.from)
        /\ ~panicked =>
             state.name = evaluate(St(tick.from, ""),
                                   [kind |-> tick.resp, token |-> ""]).name

\* a tick in Sending ran send alone and stored Waiting
C5_Witness ==
    /\ tick.from = "Sending" /\ tick.ops = <<"send">> /\ tick.resp = "Reply"
    /\ state.name = "Waiting"
    /\ Len(wire) >= 2

\* C6: a tick taken in Disconnected ends in Connecting, invokes no transport
\* operation and leaves backoff, seqno, outbox, inbox, last_sent_timestamp
\* and the agent state store as they were.
C6_DisconnectedTick ==
    [][state.name = "Disconnected" =>
         /\ state'.name = "Connecting"
         /\ tick'.ops = <<>>
         /\ UNCHANGED <<backoff, seqno, outbox, inbox, last_sent_timestamp,
                        agent_state>>]_vars

\* the Disconnected tick that follows a failed connect
C6_Witness ==
    /\ tick.from = "Disconnected" /\ state.name = "Connecting"
    /\ backoff > 0

\* C7: handshake, poll and send are not invoked before a connect attempt has
\* succeeded (after a failed attempt the next operation is connect again).
C7_ConnectRetriedFirst ==
    tick.ops \in {<<"handshake">>, <<"poll">>, <<"send">>} => connects.succeeded

C9_IoFailureIsAnError ==
    tick.fault # "" =>
        /\ ~panicked
        /\ \/ tick.resp \in {"Error", "Err"}
           \/ tick.ops = <<"connect">> /\ tick.resp = "None"

\* C10: while no connect attempt has succeeded no tick aborts and the FSM
\* stays in the cycle of Disconnected and Connecting.
C10_KeepsReconnecting ==
    ~connects.succeeded =>
        ~panicked /\ state.name \in {"Disconnected", "Connecting"}

\* C11: after a poll dispatched a server message that asks this client for
\* its full state, the full state is the next message to be transmitted: it
\* heads the outbox, which send drains front to back (the outbox is empty
\* when a poll reaches its dispatcher).
C11_FullStateIsNext ==
    (tick.ops = <<"poll">>
     /\ \E i \in DOMAIN outbox : outbox[i].origin = "full_state") =>
        outbox[1].origin = "full_state"

FullState(m) ==
    /\ m.instance_uid = InstanceId
    /\ IsSome(m.agent_description) /\ IsSome(m.health)
    /\ IsSome(m.effective_config) /\ IsSome(m.remote_config_status)
    /\ IsSome(m.package_statuses)

\* C13: a handshake answers Reply and enqueues exactly one message, the
\* content of the state store; the first message a client hands to the
\* network is that full state, with sequence number 1.
C13_HandshakeFirst ==
    /\ tick.ops = <<"handshake">> =>
         /\ tick.resp = "Reply"
         /\ Len(outbox) = 1
         /\ IsSome(agent_state)
         /\ outbox[1] = [Unwrap(agent_state) EXCEPT !.enq = 1]
         /\ FullState(outbox[1])
    /\ wire # <<>> =>
         /\ wire[1].origin = "full_state" /\ wire[1].enq = 1
         /\ FullState(wire[1])
         /\ wire[1].sequence_num = 1

\* the send after the handshake transmitted the full state
C13_Witness ==
    /\ tick.ops = <<"send">> /\ tick.resp = "Reply"
    /\ Len(wire) = 1
    /\ wire[1].origin = "full_state" /\ wire[1].sequence_num = 1


\* C14: the HTTP inbox is drained first in, first out: whenever poll takes a
\* message out of the inbox it takes the oldest one, so a response pushed
\* earlier is dispatched before one pushed later.
C14_InboxFifo ==
    [][(transport = "http" /\ Len(inbox') < Len(inbox)) =>
          inbox' = Tail(inbox)]_vars


\* the answers cb with the Err of site s replaced by Ok(None)
WithoutErr(cb, s) == [cb EXCEPT ![s] = [tag |-> "None", feat |-> <<0, 0>>]]

\* two polls that differ at most in what they logged
SamePoll(p, q) ==
    /\ p.resp = q.resp /\ evaluate(state, p.resp) = evaluate(state, q.resp)
    /\ p.outbox = q.outbox /\ p.inbox = q.inbox /\ p.store = q.store
    /\ p.calls = q.calls /\ p.fault = q.fault

\* C15: a callback that returns Err is logged and nothing else: a poll in
\* which one callback fails enqueues, calls, stores and answers exactly what
\* it does when that callback returns Ok(None) (so the later dispatch steps
\* and on_loop run and the next FSM state is the same), it answers neither
\* Error nor a panic, and a store initialized while get_configuration fails
\* is the store initialized while it returns Ok(None).
C15_CallbackErrorsSwallowed ==
    /\ Running("http", "Polling") =>
         \A in \in StatusInputs(agent_state) :
           \A cb \in CallbackChoices(HttpPollSites(in)) :
             \A s \in DOMAIN cb :
               cb[s].tag = "Err" =>
                 SamePoll(HttpPoll(cb, in), HttpPoll(WithoutErr(cb, s), in))
    /\ Running("ws", "Polling") =>
         \A in \in StatusInputs(agent_state), rd \in WsReads :
           \A cb \in CallbackChoices(WsPollSites(rd, in)) :
             \A s \in DOMAIN cb :
               cb[s].tag = "Err" =>
                 SamePoll(WsPoll(rd, cb, in), WsPoll(rd, WithoutErr(cb, s), in))
    /\ \A in \in StatusInputs(agent_state) :
         ~in.cfg.ok =>
           get_status(agent_state, in)
             = get_status(agent_state,
                          [in EXCEPT !.cfg = [ok |-> TRUE, val |-> None]])
    /\ (tick.errs # <<>> /\ tick.ops = <<"poll">>) =>
         /\ tick.resp \in {"Reply", "None"}
         /\ tick.calls # <<>> /\ tick.calls[Len(tick.calls)] = "on_loop"
    /\ (tick.errs # <<>> /\ tick.fault = "") =>
         /\ tick.resp \notin {"Error", "Err", "Panic"}
         /\ ~panicked

\* on_command failed, and the remote configuration of the same message was
\* still handed to its callback, whose reply is enqueued, and on_loop ran
C15_Witness ==
    /\ tick.ops = <<"poll">> /\ tick.errs = <<"command">>
    /\ tick.calls = <<"on_command", "on_agent_remote_config", "on_loop">>
    /\ \E i \in DOMAIN outbox : outbox[i].origin = "on_agent_remote_config"
    /\ \A i \in DOMAIN outbox : outbox[i].origin # "on_command"
    /\ tick.resp = "Reply" /\ state.name = "Sending"


\* a 2xx response whose body is not a ServerToAgent: no byte left after the
\* header byte, or bytes that do not decode
Undecodable(post) ==
    /\ post.kind = "200"
    /\ \/ post.encoding # "absent" /\ Len(post.body) < 1
       \/ post.encoding = "absent" /\ ~decode(post.body).ok
       \/ post.encoding = "identity" /\ Len(post.body) >= 1
            /\ ~decode(Tail(post.body)).ok

\* C16: an inbound payload that does not decode is dropped and the tick goes
\* on: an HTTP send that meets such a response does not abort, and a
\* WebSocket poll that reads such a frame (no bytes at all, or bytes that do
\* not decode) does not abort and calls no dispatcher callback.
C16_UndecodableDropped ==
    /\ Running("http", "Sending") =>
         \A posts \in PostRuns(Len(outbox)) :
           (\E i \in DOMAIN posts : Undecodable(posts[i])) =>
              HttpSend(posts).resp.kind \in {"Reply", "None"}
    /\ (Running("ws", "Polling") /\ IsSome(stream) /\ outbox = <<>>
        /\ Unwrap(Unwrap(agent_state).health).healthy) =>
         \A in \in StatusInputs(agent_state), rd \in WsReads :
           (rd.kind = "Binary" /\ ws_inbound(rd) = None) =>
              \A cb \in CallbackChoices(WsPollSites(rd, in)) :
                /\ WsPoll(rd, cb, in).resp.kind \in {"Reply", "None"}
                /\ Range(WsPoll(rd, cb, in).calls) \subseteq {"on_loop"}


\* the content of a message, without the bookkeeping of the outbox
Content(m) == [m EXCEPT !.origin = "", !.enq = 0]

Calls(calls, f) == Cardinality({i \in DOMAIN calls : calls[i] = f})

\* C18: an HTTP poll that gets past the health transition, the outbox check
\* and the heartbeat calls on_loop exactly once and appends the message it
\* returns to the outbox, with a message in the inbox and with none.
C18_OnLoopEveryPoll ==
    (/\ Running("http", "Polling")
     /\ IsSome(agent_state) /\ IsSome(Unwrap(agent_state).health)
     /\ Unwrap(Unwrap(agent_state).health).healthy
     /\ outbox = <<>>
     /\ now < last_sent_timestamp + SERVER_POLL_DELAY) =>
        \A in \in StatusInputs(agent_state) :
          \A cb \in CallbackChoices(IF inbox = <<>> THEN {"on_loop"}
                                    ELSE ReplySites(inbox[Len(inbox)])) :
            LET p == HttpPoll(cb, in) IN
            /\ Calls(p.calls, "on_loop") = 1
            /\ cb["on_loop"].tag = "Some" =>
                 /\ p.outbox # <<>>
                 /\ p.outbox[Len(p.outbox)].origin = "on_loop"


\* the order of the handlers as the specification gives it, on_loop last
SpecOrder == <<"command", "error_response", "report", "remote_config",
               "own_metrics", "own_traces", "own_logs", "packages_available",
               "on_loop">>

Position(s) == CHOOSE i \in DOMAIN SpecOrder : SpecOrder[i] = s

\* callbacks that all reply, each reply marked with the position of its
\* handler
Marked == [s \in AllSites |-> [tag |-> "Some", feat |-> <<Position(s), 0>>]]

\* what identifies a reply in the outbox
Mark(m) ==
    IF m.origin = "full_state" THEN <<"full_state", 0>>
    ELSE <<m.origin, m.capabilities>>

\* the callbacks one inbound message must reach, in order ...
ExpectedCalls(msg) ==
    LET Called(s) == \/ s = "on_loop"
                     \/ s = "report" /\ msg.report
                          /\ msg.instance_uid # InstanceId
                     \/ s # "report" /\ s \in msg.present
        sites == SelectSeq(SpecOrder, Called)
    IN [i \in DOMAIN sites |-> CallbackOf(sites[i])]

\* ... and the replies they leave in the outbox when each of them replies
ExpectedReplies(msg) ==
    LET Replied(s) == \/ s = "on_loop"
                      \/ s = "report" /\ msg.report
                      \/ s \notin {"report", "error_response"}
                           /\ s \in msg.present
        sites == SelectSeq(SpecOrder, Replied)
    IN [i \in DOMAIN sites |->
          IF sites[i] = "report" /\ msg.instance_uid = InstanceId
          THEN <<"full_state", 0>>
          ELSE <<CallbackOf(sites[i]), Position(sites[i])>>]

InOrder(p, msg) ==
    /\ p.calls = ExpectedCalls(msg)
    /\ [i \in DOMAIN p.outbox |-> Mark(p.outbox[i])] = ExpectedReplies(msg)

\* C19: the handlers of one inbound message run in the order command,
\* error_response, ReportFullState, remote_config, own_metrics, own_traces,
\* own_logs, packages_available, on_loop, in both transports; their replies
\* are in the outbox in that order, and on_connection_settings_offers is
\* called once for each sub-offer present.
C19_DispatchOrder ==
    /\ (/\ Running("http", "Polling")
        /\ IsSome(agent_state) /\ IsSome(Unwrap(agent_state).health)
        /\ Unwrap(Unwrap(agent_state).health).healthy
        /\ outbox = <<>> /\ inbox # <<>>
        /\ now < last_sent_timestamp + SERVER_POLL_DELAY) =>
          \A in \in StatusInputs(agent_state) :
            InOrder(HttpPoll(Marked, in), inbox[Len(inbox)])
    /\ (/\ Running("ws", "Polling") /\ IsSome(stream)
        /\ IsSome(agent_state) /\ IsSome(Unwrap(agent_state).health)
        /\ Unwrap(Unwrap(agent_state).health).healthy
        /\ outbox = <<>>) =>
          \A in \in StatusInputs(agent_state), rd \in WsReads :
            IsSome(ws_inbound(rd)) =>
              InOrder(WsPoll(rd, Marked, in), Unwrap(ws_inbound(rd)))
    /\ tick.ops = <<"poll">> =>
         \A f \in Range(tick.calls) :
           f # "on_connection_settings_offers" => Calls(tick.calls, f) = 1

\* a message with an error response and two sub-offers was dispatched: the
\* error relayed, the offers callback called twice, on_loop last, and their
\* three replies enqueued in that order
C19_Witness ==
    /\ tick.ops = <<"poll">>
    /\ tick.calls = <<"on_error", "on_connection_settings_offers",
                      "on_connection_settings_offers", "on_loop">>
    /\ [i \in DOMAIN outbox |-> outbox[i].origin]
         = <<"on_connection_settings_offers",
             "on_connection_settings_offers", "on_loop">>


\* C20: the agent state store is None or a fully populated AgentToServer:
\* the instance id of the settings and agent_description, health,
\* effective_config, remote_config_status and package_statuses all present,
\* also when get_configuration failed while the store was initialized.
C20_StoreNoneOrFull ==
    agent_state = None \/ FullState(Unwrap(agent_state))

\* the store was initialized in a tick in which get_configuration failed:
\* its effective_config is present, with no config_map
C20_Witness ==
    /\ tick.errs = <<"get_configuration">>
    /\ IsSome(agent_state)
    /\ Unwrap(agent_state).effective_config = Some([config_map |-> None])
    /\ FullState(Unwrap(agent_state))


\* the store's content apart from health.healthy
Frame(st) ==
    [st EXCEPT !.health =
       IF IsSome(@) THEN Some([Unwrap(@) EXCEPT !.healthy = FALSE]) ELSE None]

\* C21: an initialized store stays initialized and no step changes anything
\* of it but health.healthy (capabilities, flags, instance_uid, the
\* description, configuration and statuses and the health start time stay);
\* get_configuration and get_features are called once each by the step that
\* initializes the store and by no step after it.
C21_StoreFrame ==
    [][/\ IsSome(agent_state) =>
            /\ IsSome(agent_state')
            /\ Frame(Unwrap(agent_state')) = Frame(Unwrap(agent_state))
            /\ features' = features
            /\ tick' # tick =>
                 /\ Calls(tick'.calls, "get_configuration") = 0
                 /\ Calls(tick'.calls, "get_features") = 0
       /\ (agent_state = None /\ IsSome(agent_state')) =>
            /\ Calls(tick'.calls, "get_configuration") = 1
            /\ Calls(tick'.calls, "get_features") = 1
            /\ Len(features') = Len(features) + 1
            /\ features = <<>>]_vars

\* a poll, later than the tick that initialized the store, has set the agent
\* healthy: the store keeps the start time and the features of its
\* initialization
C21_Witness ==
    /\ tick.ops = <<"poll">> /\ IsSome(agent_state)
    /\ Unwrap(Unwrap(agent_state).health).healthy
    /\ Unwrap(Unwrap(agent_state).health).start_time_unix_nano < now
    /\ Len(features) = 1
    /\ Unwrap(agent_state).capabilities = features[1][1]


\* the messages a poll added to the outbox in reply to ReportFullState for
\* this agent
FullStateReplies(p) ==
    {p.outbox[i] : i \in {j \in DOMAIN p.outbox :
                            j > Len(outbox) /\ p.outbox[j].origin = "full_state"}}

\* what the server is to find in such a message
ReportsHealthy(m) ==
    /\ IsSome(m.agent_description)
    /\ IsSome(m.effective_config)
    /\ IsSome(m.health) /\ Unwrap(m.health).healthy

\* C22: in both transports, every full state a poll enqueues in reply to
\* ReportFullState addressed to the client's own instance_uid has
\* agent_description and effective_config present and health.healthy true,
\* in every state the client can be polled in.
C22_FullStateReportsHealthy ==
    /\ Running("http", "Polling") =>
         \A in \in StatusInputs(agent_state) :
           \A cb \in CallbackChoices(HttpPollSites(in)) :
             \A m \in FullStateReplies(HttpPoll(cb, in)) : ReportsHealthy(m)
    /\ Running("ws", "Polling") =>
         \A in \in StatusInputs(agent_state), rd \in WsReads :
           \A cb \in CallbackChoices(WsPollSites(rd, in)) :
             \A m \in FullStateReplies(WsPoll(rd, cb, in)) : ReportsHealthy(m)

\* an HTTP poll answered ReportFullState with the healthy full state
C22_Witness ==
    /\ transport = "http" /\ tick.ops = <<"poll">> /\ tick.resp = "Reply"
    /\ \E i \in DOMAIN outbox :
         /\ outbox[i].origin = "full_state"
         /\ ReportsHealthy(outbox[i])
         /\ outbox[i] = [Unwrap(agent_state) EXCEPT !.enq = outbox[i].enq]


\* an inbound message that carries a remote configuration and nothing else
OnlyRemoteConfig(msg) ==
    msg.present = {"remote_config"} /\ ~msg.report

\* a poll that dispatched msg with these callbacks hands the reply of
\* on_agent_remote_config to the outbox first and asks for a send
RepliesFirst(p, msg, cb) ==
    (OnlyRemoteConfig(msg) /\ p.calls # <<>>
     /\ cb["remote_config"].tag = "Some") =>
        /\ p.outbox # <<>>
        /\ Content(p.outbox[1])
             = Content(reply("remote_config", cb["remote_config"]))
        /\ p.outbox[1].origin = "on_agent_remote_config"
        /\ evaluate(state, p.resp).name = "Sending"

\* C23: when a message carrying only remote_config is dispatched and
\* on_agent_remote_config returns a message, that message is the first of
\* the outbox and the poll leads to a send; the send that follows hands it
\* to the network before anything else, with the sequence number of the
\* message sent before it plus one.
C23_ConfigReplyIsNext ==
    [][/\ (/\ Running("http", "Polling")
           /\ inbox # <<>> /\ OnlyRemoteConfig(inbox[Len(inbox)])) =>
              \A in \in StatusInputs(agent_state) :
                \A cb \in CallbackChoices(HttpPollSites(in)) :
                  RepliesFirst(HttpPoll(cb, in), inbox[Len(inbox)], cb)
       /\ Running("ws", "Polling") =>
            \A in \in StatusInputs(agent_state), rd \in WsReads :
              (IsSome(ws_inbound(rd))
               /\ OnlyRemoteConfig(Unwrap(ws_inbound(rd)))) =>
                \A cb \in CallbackChoices(WsPollSites(rd, in)) :
                  RepliesFirst(WsPoll(rd, cb, in), Unwrap(ws_inbound(rd)), cb)
       /\ (/\ tick.ops = <<"poll">>
           /\ tick.calls = <<"on_agent_remote_config", "on_loop">>
           /\ outbox # <<>> /\ outbox[1].origin = "on_agent_remote_config"
           /\ wire' # wire) =>
              /\ Len(wire') > Len(wire) /\ wire # <<>>
              /\ SubSeq(wire', 1, Len(wire)) = wire
              /\ Content(wire'[Len(wire) + 1])
                   = Content([outbox[1] EXCEPT
                                !.sequence_num = wire[Len(wire)].sequence_num + 1,
                                !.capabilities = wire'[Len(wire) + 1].capabilities,
                                !.flags = wire'[Len(wire) + 1].flags])
              /\ wire'[Len(wire) + 1].enq = outbox[1].enq]_vars

\* the reply of on_agent_remote_config to a message with nothing but a
\* remote configuration has just been sent, right after the message
\* numbered one less
C23_Witness ==
    /\ tick.ops = <<"send">> /\ tick.from = "Sending"
    /\ Len(wire) >= 2
    /\ \E k \in 2..Len(wire) :
         /\ wire[k].origin = "on_agent_remote_config"
         /\ wire[k].sequence_num = wire[k - 1].sequence_num + 1
         /\ (k = Len(wire) \/ wire[k + 1].origin = "on_loop")
    /\ server.payloads = {<<"remote_config">>}


\* C24: cold start over HTTP with a server that answers the HEAD probe and
\* answers the POST with a 2xx ServerToAgent: the first five ticks go from
\* Disconnected through Connecting, Connected, Sending and Waiting to
\* Polling, and exactly one POST is made in them, with sequence number 1.
C24_ColdStartHttp ==
    transport = "http" =>
      /\ tick.n = 0 => state.name = "Disconnected" /\ wire = <<>>
      /\ tick.n = 1 =>
           /\ state.name = "Connecting" /\ wire = <<>>
           /\ evaluate(state, HttpConnect("200").resp).name = "Connected"
      /\ (tick.n = 2 /\ connects.succeeded /\ connects.failed = 0) =>
           state.name = "Connected" /\ wire = <<>>
      /\ (tick.n = 3 /\ tick.from = "Connected") =>
           /\ state.name = "Sending" /\ wire = <<>>
           /\ \A posts \in [1..Len(outbox) -> OkPosts] :
                /\ evaluate(state, HttpSend(posts).resp).name = "Waiting"
                /\ Len(HttpSend(posts).wire) = 1
                /\ HttpSend(posts).wire[1].sequence_num = 1
      /\ (tick.n = 4 /\ tick.from = "Sending" /\ tick.resp = "Reply") =>
           /\ state.name = "Waiting"
           /\ Len(wire) = 1 /\ wire[1].sequence_num = 1
      /\ (tick.n = 5 /\ tick.from = "Waiting") =>
           /\ state.name = "Polling"
           /\ Len(wire) = 1 /\ wire[1].sequence_num = 1

\* the fifth tick of such a start has ended: Polling, one POST made
C24_Witness ==
    /\ transport = "http" /\ server.up
    /\ tick.n = 5 /\ tick.from = "Waiting" /\ state.name = "Polling"
    /\ connects = [failed |-> 0, succeeded |-> TRUE]
    /\ Len(wire) = 1 /\ wire[1].sequence_num = 1 /\ seqno = 1
    /\ inbox # <<>>


\* C25: an HTTP client whose HEAD probe is refused every time is, after
\* three ticks from construction, in Connecting with backoff 3, having slept
\* at least 2 + 4 + 8 seconds.
C25_ThreeRefusedTicks ==
    (/\ transport = "http" /\ tick.n = 3
     /\ ~connects.succeeded /\ connects.failed >= 1
     /\ retries >= 1) =>
        /\ state.name = "Connecting"
        /\ backoff = 3
        /\ now - StartTime >= 2 + 4 + 8


\* C26: a tick without network activity or callback output makes the least
\* progress: started in Disconnected it ends in Connecting, started in
\* Waiting it ends in Waiting, in both transports.
C26_MinimumProgress ==
    [][/\ (~panicked /\ state.name = "Disconnected") =>
            state'.name = "Connecting"
       /\ (~panicked /\ state.name = "Waiting") =>
            state'.name = "Waiting"]_vars


\* the message the decoder is to produce for a 2xx response: the body,
\* gunzipped when Content-Encoding is gzip, decoded without its first byte
ExpectedInbound(post) ==
    LET b == IF post.encoding = "gzip"
             THEN gzip_decompress(post.body, Len(post.body)).data
             ELSE post.body
    IN IF b = <<>> THEN [ok |-> FALSE, msg |-> <<>>] ELSE decode(Tail(b))

\* C27: for every 2xx response with a non-empty body, with or without a
\* Content-Encoding header, the message pushed into the inbox is the
\* decoding of the body (gunzipped when gzip) without its first byte.
C27_FirstByteSkipped ==
    (Running("http", "Sending") /\ Len(outbox) = 1) =>
       \A post \in OkPosts \cup BadPosts :
         (post.kind = "200" /\ post.body # <<>> /\ ExpectedInbound(post).ok) =>
            /\ HttpSend(<<post>>).resp.kind = "Reply"
            /\ HttpSend(<<post>>).inbox
                 = Append(inbox, ExpectedInbound(post).msg)


\* how many guards of the callback mutex are alive after the first i events
Held(trace, i) ==
    Cardinality({j \in 1..i : trace[j] = "lock"})
      - Cardinality({j \in 1..i : trace[j] = "unlock"})

\* the callbacks called in a trace of the mutex
CalledUnder(trace) ==
    LET IsCall(e) == e \notin {"lock", "unlock"} IN SelectSeq(trace, IsCall)

\* C28: callbacks are serialized by the callback mutex: in every tick each
\* callback is called while the mutex is held, the mutex is never requested
\* while the tick already holds it (so at most one guard is alive, get_status
\* inside the dispatcher included), and it is free when the tick ends.
C28_CallbacksUnderMutex ==
    /\ \A i \in DOMAIN tick.mutex :
         /\ Held(tick.mutex, i) \in {0, 1}
         /\ tick.mutex[i] = "lock" => Held(tick.mutex, i - 1) = 0
         /\ tick.mutex[i] \notin {"lock", "unlock"} =>
              Held(tick.mutex, i) = 1
    /\ Held(tick.mutex, Len(tick.mutex)) = 0
    /\ CalledUnder(tick.mutex) = tick.calls

\* a WebSocket poll dispatched a command, ReportFullState for this agent and
\* a remote configuration: three callbacks, each under its own guard
C28_Witness ==
    /\ transport = "ws" /\ tick.ops = <<"poll">>
    /\ tick.mutex = <<"lock", "on_command", "unlock",
                      "lock", "on_agent_remote_config", "unlock",
                      "lock", "on_loop", "unlock">>
    /\ \E i \in DOMAIN outbox : outbox[i].origin = "full_state"


C30_PollPriority ==
    /\ Running("http", "Polling") =>
         \A in \in StatusInputs(agent_state) :
           \A cb \in CallbackChoices(IF inbox = <<>> THEN {}
                                     ELSE ReplySites(inbox[Len(inbox)])) :
             LET p == HttpPoll(cb, in) IN
             (p.inbox # inbox \/ p.calls # <<>>) =>
                /\ Unwrap(Unwrap(agent_state).health).healthy
                /\ outbox = <<>>
                /\ now < last_sent_timestamp + SERVER_POLL_DELAY
                /\ \A i \in DOMAIN p.outbox :
                     /\ p.outbox[i].origin \notin {"health", "heartbeat"}
                     /\ p.outbox[i].enq = enqueued + i
    /\ (transport = "http" /\ tick.ops = <<"poll">> /\ tick.calls # <<>>) =>
         /\ \A i \in DOMAIN outbox :
              /\ outbox[i].origin \notin {"health", "heartbeat"}
              /\ outbox[i].enq = enqueued - Len(outbox) + i
         /\ outbox # <<>> => state.name = "Sending"

\* an HTTP poll dispatched a message and left its two replies, and nothing
\* else, for the send that follows
C30_Witness ==
    /\ transport = "http" /\ tick.ops = <<"poll">>
    /\ tick.calls = <<"on_health_check", "on_loop">>
    /\ Len(outbox) = 2 /\ state.name = "Sending"
    /\ outbox[1].origin = "on_health_check" /\ outbox[2].origin = "on_loop"


\* v with its k-th element removed
Without(v, k) == SubSeq(v, 1, k - 1) \o SubSeq(v, k + 1, Len(v))

\* C31: a poll dispatches at most one inbound message.  An HTTP poll that
\* dispatches removes exactly one message from the inbox and leaves the
\* others as they were (one that does not dispatch leaves the inbox alone),
\* and its callbacks are those of that one message.  A WebSocket poll calls
\* the callbacks of at most one frame, and when the outbox is non-empty
\* after the health transition its outcome does not depend on what the
\* socket holds: no frame is read.
C31_OneInboundPerPoll ==
    /\ Running("http", "Polling") =>
         \A in \in StatusInputs(agent_state) :
           \A cb \in CallbackChoices(HttpPollSites(in)) :
             LET p == HttpPoll(cb, in) IN
             IF p.calls # <<>>
             THEN /\ inbox # <<>>
                  /\ \E k \in DOMAIN inbox :
                       /\ p.inbox = Without(inbox, k)
                       /\ p.calls = ExpectedCalls(inbox[k])
             ELSE p.inbox = inbox
    /\ (Running("ws", "Polling") /\ IsSome(agent_state)) =>
         \A in \in StatusInputs(agent_state), rd \in WsReads :
           \A cb \in CallbackChoices(WsPollSites(rd, in)) :
             LET p == WsPoll(rd, cb, in) IN
             /\ p.calls # <<>> =>
                  p.calls = IF IsSome(ws_inbound(rd))
                            THEN ExpectedCalls(Unwrap(ws_inbound(rd)))
                            ELSE <<"on_loop">>
             /\ health_transition(in).outbox # <<>> =>
                  /\ p.calls = <<>>
                  /\ \A other \in WsReads : WsPoll(other, cb, in) = p
    /\ tick.ops = <<"poll">> => Calls(tick.calls, "on_loop") <= 1

\* an HTTP poll dispatched one message of an inbox that held two: the other
\* is still there
C31_Witness ==
    /\ transport = "http" /\ tick.ops = <<"poll">>
    /\ Calls(tick.calls, "on_loop") = 1
    /\ Len(inbox) = 1


\* C32: when the HEAD probe of HTTP connect gets an HTTP response, a status
\* other than 404 answers Reply and the FSM goes to Connected, the status 404
\* answers Error and the FSM goes to Disconnected; backoff is unchanged and
\* nothing is slept in both cases, so 404 answers are retried with no delay
\* and no retry limit.
C32_HeadResponse ==
    /\ Running("http", "Connecting") =>
         \A head \in HeadOutcomes \ {"refused"} :
           LET c == HttpConnect(head) IN
           /\ c.backoff = backoff
           /\ c.sleep = 0
           /\ IF head # "404"
              THEN c.resp.kind = "Reply"
                   /\ evaluate(state, c.resp).name = "Connected"
              ELSE c.resp.kind = "Error"
                   /\ evaluate(state, c.resp).name = "Disconnected"
    /\ (transport = "http" /\ tick.ops = <<"connect">> /\ tick.fault = "") =>
         /\ tick.sleep = 0
         /\ \/ tick.resp = "Reply" /\ state.name = "Connected"
            \/ tick.resp = "Error" /\ state.name = "Disconnected"

\* with the retry limit 0, the second 404 in a row: answered Error like the
\* first, nothing counted, no time passed
C32_Witness ==
    /\ transport = "http" /\ retries = 0
    /\ tick.n = 4 /\ tick.ops = <<"connect">> /\ tick.resp = "Error"
    /\ tick.fault = "" /\ state.name = "Disconnected"
    /\ backoff = 0 /\ now = StartTime


\* C33: backoff never decreases and is never reset, a successful connect
\* included: it is the number of connect attempts that failed since
\* construction; and once it is beyond the retry limit, a connect attempt
\* that fails answers the hard error at once, without sleeping.
C33_BackoffNeverReset ==
    [][/\ backoff' >= backoff
       /\ backoff' = connects'.failed
       /\ (tick'.ops = <<"connect">> /\ tick'.fault = "") => backoff' = backoff
       /\ (~panicked /\ state.name = "Connecting" /\ backoff > retries) =>
            LET c == IF transport = "http" THEN HttpConnect("refused")
                     ELSE WsConnect("refused")
            IN c.resp.kind = "Err" /\ c.sleep = 0 /\ c.backoff = backoff + 1
      ]_vars

\* a connect attempt was answered after one had failed: the failure is
\* still counted
C33_Witness ==
    /\ tick.ops = <<"connect">> /\ tick.resp = "Reply"
    /\ connects.succeeded /\ connects.failed = 1 /\ backoff = 1


\* C34: wait is a no-op in both transports: a tick started in Waiting calls
\* wait alone, which answers Reply, and ends in Polling with an empty token;
\* outbox, inbox, seqno, backoff, the agent state store and the other
\* transport fields are unchanged.
C34_WaitIsNoOp ==
    [][(~panicked /\ state.name = "Waiting") =>
         /\ state' = St("Polling", "")
         /\ tick'.ops = <<"wait">> /\ tick'.resp = "Reply"
         /\ ~panicked'
         /\ UNCHANGED <<outbox, inbox, seqno, backoff, agent_state,
                        last_sent_timestamp, stream, wire>>
      ]_vars

\* a WebSocket tick started in Waiting ended in Polling, what was sent
\* before it still counted
C34_Witness ==
    /\ transport = "ws" /\ tick.from = "Waiting" /\ tick.ops = <<"wait">>
    /\ state = St("Polling", "")
    /\ seqno = 1 /\ Len(wire) = 1 /\ outbox = <<>>


\* the ordinals of the pushes whose message is in the sequence q
Ordinals(q) == {q[i].enq : i \in DOMAIN q}

\* C35: no enqueued message is lost when an HTTP send fails: every message
\* pushed to the outbox so far is still in the outbox or has been handed to
\* the network (a POST was issued for it), also after a send one of whose
\* POSTs failed.
C35_NothingLostOnSendFailure ==
    (transport = "http" /\ ~panicked) =>
        1..enqueued \subseteq Ordinals(outbox) \cup Ordinals(wire)


\* C36: in the WebSocket transport, whenever the FSM is in Connected,
\* Polling, Sending or Waiting the stream is established, so send and poll
\* never run against a missing stream, also after failed connect attempts.
C36_StreamEstablished ==
    (transport = "ws"
     /\ state.name \in {"Connected", "Polling", "Sending", "Waiting"}) =>
        IsSome(stream)


\* C37: in both transports, a tick that starts in Sending finds the outbox
\* non-empty and one that starts in Waiting finds it empty: a send that
\* answered Reply has handed every message of the outbox to the network, in
\* order.
C37_SendingHasWork ==
    [][/\ (~panicked' /\ state'.name = "Sending") => outbox' # <<>>
       /\ (~panicked' /\ state'.name = "Waiting") => outbox' = <<>>
       /\ (state.name = "Sending" /\ tick'.ops = <<"send">>
           /\ tick'.resp = "Reply") =>
            /\ Len(wire') = Len(wire) + Len(outbox)
            /\ \A i \in DOMAIN outbox : wire'[Len(wire) + i].enq = outbox[i].enq
      ]_vars

\* a send handed the two replies of a dispatch to the network and left the
\* FSM in Waiting with an empty outbox
C37_Witness ==
    /\ tick.from = "Sending" /\ tick.resp = "Reply"
    /\ state.name = "Waiting" /\ outbox = <<>>
    /\ Len(wire) >= 3
    /\ wire[Len(wire)].origin = "on_loop"
    /\ wire[Len(wire) - 1].origin \notin {"full_state", "health", "heartbeat", "on_loop"}


\* C38: in both transports the agent state store is initialized, with its
\* health present, whenever a tick is about to invoke poll or send (and in
\* Waiting, between them): get_health never unwraps an empty store, and
\* every message handed to the network was stamped with the capabilities
\* and flags of the store.
C38_StoreInitialized ==
    /\ (~panicked /\ state.name \in {"Polling", "Sending", "Waiting"}) =>
          /\ IsSome(agent_state)
          /\ IsSome(Unwrap(agent_state).health)
    /\ wire # <<>> =>
          /\ IsSome(agent_state)
          /\ \A i \in DOMAIN wire :
               /\ wire[i].capabilities = Unwrap(agent_state).capabilities
               /\ wire[i].flags = Unwrap(agent_state).flags

\* the first HTTP poll ran on the store the handshake had initialized, after
\* the send of the full state stamped with the user's capabilities 3 and
\* flags 1
C38_Witness ==
    /\ transport = "http" /\ tick.ops = <<"poll">> /\ ~panicked
    /\ Len(wire) = 1 /\ wire[1].capabilities = 3 /\ wire[1].flags = 1
    /\ IsSome(agent_state) /\ Unwrap(Unwrap(agent_state).health).healthy


\* C39: once the handshake is done (the FSM has entered Sending), the FSM
\* stays in Polling, Sending and Waiting in both transports, whatever
\* failures sends and reads meet: connect and handshake are not invoked
\* again, no operation answers a hard error, and poll does not answer Error.
C39_NoWayBack ==
    [][(state.name \in {"Polling", "Sending", "Waiting"} /\ tick' # tick) =>
         /\ state'.name \in {"Polling", "Sending", "Waiting"}
         /\ tick'.ops \in {<<"poll">>, <<"send">>, <<"wait">>}
         /\ tick'.resp # "Err"
         /\ tick'.ops = <<"poll">> => tick'.resp # "Error"
      ]_vars

\* an HTTP send met a refused POST after the handshake had been sent: it
\* answered Error and the FSM is in Polling
C39_Witness ==
    /\ transport = "http" /\ tick.ops = <<"send">> /\ tick.fault = "refused"
    /\ tick.resp = "Error" /\ state.name = "Polling"
    /\ seqno >= 2


\* C40: in the HTTP transport every response pushed into the inbox is
\* eventually dispatched, when the caller keeps calling poll() and every POST
\* succeeds, whatever the callbacks and on_loop answer: the response that is
\* followed is taken out of the inbox by a later poll.
C40_InboxEventuallyDispatched ==
    Tracked(inbox) ~> ~Tracked(inbox)

============================================================================
